---------------------------- MODULE Spec2Model ----------------------------
(***************************************************************************)
(* abstract-migrator: the migration execution core.                        *)
(*                                                                         *)
(* The model follows the current library (src/index.js: getImpl,           *)
(* assertApplied, run, applySingle, getMigrationsFromPath) and the command *)
(* line program that uses it (src/unnamed/part_002, which requires the     *)
(* library from its parent directory).  The adapter is an external         *)
(* collaborator; its contract is the README's (src/unnamed/part_001).      *)
(*                                                                         *)
(* One command-line invocation runs at a time.  Every `await` of the code  *)
(* is a step of the model.  An adapter call (applied, record, remove,      *)
(* commit, rollback, close) that the code awaits is one step: single       *)
(* threaded code cannot observe anything between its call and its return.  *)
(* The one call the code does not await, close() after a directory's       *)
(* commit, is a call step followed later by a separate completion step.    *)
(*                                                                         *)
(* In Spec the adapter's session calls fulfil; a unit's own operation may  *)
(* throw and adapter resolution may fail.                                  *)
(***************************************************************************)
EXTENDS Naturals, Sequences, FiniteSets

\* Bounds of the model
NumDirs  == 2      \* migration folders (store types) under migrations/
NumUnits == 3      \* migration files in each folder
MaxRuns  == 2      \* command-line invocations in one behaviour

Dirs  == 1 .. NumDirs
Units == 1 .. NumUnits

\* A directory entry is a unit's file (1..NumUnits, ordered as the names are,
\* by timestamp prefix) or 0, a file the pattern rejects (template.js).
Entries == Units \cup {0}

VARIABLES
    store,      \* store[d]: names the adapter of folder d reports as applied
    snap,       \* snap[d]: store[d] when the current session on d began
    store0,     \* store when the current invocation began
    runs,       \* invocations started so far
    mode,       \* "idle", "single" (applySingle) or "all" (whole-directory up)
    req,        \* the run request: [dir, d, u, force]
    pc,         \* position of the invocation's control flow
    folder,     \* folder whose adapter (impl) is in use
    files,      \* the rest of getMigrationsFromPath(folder) still to visit
    err,        \* applySingle's local `err`
    surfaced,   \* the error that reached the top-level caller
    log,        \* calls made by this invocation, in order
    closing,    \* folders whose un-awaited close() has not completed yet
    exited,     \* process.exit(1) was called
    hist,       \* forward operations counted over the invocations (NoHist)
    lastApply,  \* the invocation before this one, if a successful apply
    dirents,    \* names readdirSync returned to a getMigrationsFromPath call
    found       \* what that getMigrationsFromPath call returned

vars == << store, snap, store0, runs, mode, req, pc, folder, files, err,
           surfaced, log, closing, exited, hist, lastApply, dirents, found >>

Ev(e, d, u, r) == [ev |-> e, d |-> d, u |-> u, r |-> r]

Bool2Str(b) == IF b THEN "true" ELSE "false"

----------------------------------------------------------------------------
\* Pure functions of the library

\* the filter of getMigrationsFromPath: /^\d{4}-\d{2}-\d{2}T...[.]js$/.test(file)
IsMigrationFile(e) == e # 0

RECURSIVE Insert(_, _)
Insert(x, s) ==
    IF s = << >> THEN << x >>
    ELSE IF x <= Head(s) THEN << x >> \o s
    ELSE << Head(s) >> \o Insert(x, Tail(s))

RECURSIVE SortSeq(_)
SortSeq(s) == IF s = << >> THEN << >> ELSE Insert(Head(s), SortSeq(Tail(s)))

\* part_000's getMigrationsFromPath: the same without .sort()
getMigrationsFromPathUnsorted(listing) == SelectSeq(listing, IsMigrationFile)

\* readdirSync(path).filter(...).map(...).sort()
getMigrationsFromPath(listing) == SortSeq(SelectSeq(listing, IsMigrationFile))

\* What readdirSync may return: the entries of the folder in any order.
Listings ==
    { s \in [1 .. Cardinality(Entries) -> Entries] :
        \A i, j \in 1 .. Cardinality(Entries) : i # j => s[i] # s[j] }

\* assertApplied without its first line (if (force) return)
assertAppliedIgnoresForce(dbState, applied, force) ==
    IF dbState # applied
    THEN (IF applied THEN "not yet applied" ELSE "already applied")
    ELSE "none"

\* assertApplied with the two messages exchanged
assertAppliedOtherMessage(dbState, applied, force) ==
    IF force THEN "none"
    ELSE IF dbState # applied
         THEN (IF applied THEN "already applied" ELSE "not yet applied")
         ELSE "none"

\* assertApplied that never throws
assertAppliedNever(dbState, applied, force) == "none"

\* assertApplied with the comparison inverted
assertAppliedInverted(dbState, applied, force) ==
    IF force THEN "none"
    ELSE IF dbState = applied
         THEN (IF applied THEN "not yet applied" ELSE "already applied")
         ELSE "none"

\* assertApplied: "none" when it returns, else the message it throws.
\* dbState is what impl.applied(name) answered (not read when force).
assertApplied(dbState, applied, force) ==
    IF force THEN "none"
    ELSE IF dbState # applied
         THEN (IF applied THEN "not yet applied" ELSE "already applied")
         ELSE "none"

\* record() and remove() that leave the adapter's state as it is
recordOrRemoveNothing(s, dir, u) == s

\* an adapter whose remove() leaves the name recorded
recordOrRemoveKeeps(s, dir, u) == IF dir = "up" THEN s \cup {u} ELSE s

\* an adapter call that marks every unit of the folder, not the named one
recordOrRemoveEvery(s, dir, u) == IF dir = "up" THEN Units ELSE {}

\* impl[dir === 'up' ? 'record' : 'remove'](name) on the adapter's state
recordOrRemove(s, dir, u) == IF dir = "up" THEN s \cup {u} ELSE s \ {u}

----------------------------------------------------------------------------
\* History kept across invocations, read by the properties only.
\*   hist.execs[d][u]   forward operations of u that completed
\*   hist.undone[d][u]  those of them whose session rollback() discarded
\*   lastApply          the invocation before this one, when it was a
\*                      single-unit apply without --force that succeeded:
\*                      its unit and the store it started from
\* They are kept by the variants of the steps that change them
\* (BeginRemembering, RunOpOkCounted, AllRollbackCounted), which the
\* specifications SpecRoundTrip and SpecApply take in place of the plain steps.

\* the counts c with one more for every unit of us
RECURSIVE AddOne(_, _)
AddOne(c, us) ==
    IF us = {} THEN c
    ELSE LET u == CHOOSE u \in us : TRUE
         IN  AddOne([c EXCEPT ![u] = @ + 1], us \ {u})

\* n times x, as a sequence
RECURSIVE Rep(_, _)
Rep(n, x) == IF n = 0 THEN << >> ELSE Append(Rep(n - 1, x), x)

NoCount == Rep(NumDirs, Rep(NumUnits, 0))
NoHist == [execs |-> NoCount, undone |-> NoCount]
NoApply == [ok |-> FALSE, d |-> 1, u |-> 1, s |-> Rep(NumDirs, {})]

InitRun ==
    /\ store = [d \in Dirs |-> {}]
    /\ snap = [d \in Dirs |-> {}]
    /\ store0 = [d \in Dirs |-> {}]
    /\ runs = 0
    /\ mode = "idle"
    /\ req = [dir |-> "up", d |-> 1, u |-> 1, force |-> FALSE]
    /\ pc = "idle"
    /\ folder = 1
    /\ files = << >>
    /\ err = "none"
    /\ surfaced = "none"
    /\ log = << >>
    /\ closing = {}
    /\ exited = FALSE
    /\ hist = NoHist
    /\ lastApply = NoApply

Init ==
    /\ InitRun
    /\ dirents = << >>
    /\ found = << >>

\* A new process: nothing of the previous invocation but the store remains.
BeginStep(m, r, p, f) ==
    /\ pc \in {"idle", "done"}
    /\ runs < MaxRuns
    /\ runs' = runs + 1
    /\ mode' = m
    /\ req' = r
    /\ pc' = p
    /\ folder' = f
    /\ files' = << >>
    /\ err' = "none"
    /\ surfaced' = "none"
    /\ log' = << >>
    /\ closing' = {}
    /\ exited' = FALSE
    /\ store0' = store
    /\ snap' = store
    /\ UNCHANGED << store, hist, dirents, found >>

Begin(m, r, p, f) == BeginStep(m, r, p, f) /\ UNCHANGED lastApply

\* the same step, remembering the invocation that has just ended
BeginRemembering(m, r, p, f) ==
    /\ BeginStep(m, r, p, f)
    /\ lastApply' = IF /\ pc = "done" /\ mode = "single" /\ surfaced = "none"
                       /\ req.dir = "up" /\ ~req.force
                    THEN [ok |-> TRUE, d |-> req.d, u |-> req.u, s |-> store0]
                    ELSE NoApply

\* amigrate up <file> [--force]  /  amigrate down <file> [--force]
StartSingle ==
    \E dir \in {"up", "down"}, d \in Dirs, u \in Units, force \in BOOLEAN :
        Begin("single", [dir |-> dir, d |-> d, u |-> u, force |-> force],
              "single_getImpl", d)

\* amigrate up [--force]: every folder of paths, in order
StartAll ==
    \E force \in BOOLEAN :
        Begin("all", [dir |-> "up", d |-> 1, u |-> 1, force |-> force],
              "all_getImpl", 1)

----------------------------------------------------------------------------
\* getImpl (index.js 12-26) as its callers see it

\* getImpl resolved: a fresh adapter session on folder d
Resolved(d) ==
    /\ log' = Append(log, Ev("getImpl", d, 0, "ok"))
    /\ snap' = [snap EXCEPT ![d] = store[d]]

----------------------------------------------------------------------------
\* run (index.js 45-55); its caller passes impl, so line 47 is not taken

\* part_000's applySingle: no try/catch around run, the error leaves
\* applySingle at once
ThrowUncaughtInSingle(e) ==
    IF mode = "single"
    THEN /\ surfaced' = e
         /\ pc' = "done"
         /\ UNCHANGED err
    ELSE /\ surfaced' = e
         /\ pc' = "all_rollback"
         /\ UNCHANGED err

\* the whole-directory catch block without its rollback
ThrowNoRollback(e) ==
    IF mode = "single"
    THEN /\ err' = e
         /\ pc' = "single_commit"
         /\ UNCHANGED surfaced
    ELSE /\ surfaced' = e
         /\ pc' = "all_close"
         /\ UNCHANGED err

\* run rejects with e.  applySingle catches it into err (index.js 73-75) and
\* goes on to commit; the whole-directory loop prints it (part_002 228-229)
\* and goes on to rollback.
Throw(e) ==
    IF mode = "single"
    THEN /\ err' = e
         /\ pc' = "single_commit"
         /\ UNCHANGED surfaced
    ELSE /\ surfaced' = e
         /\ pc' = "all_rollback"
         /\ UNCHANGED err

\* line 52: await assertApplied(impl, dir === 'down', name, force)
RunGuard ==
    /\ pc = "run_guard"
    /\ LET d == folder
           u == req.u
           dbState == u \in store[d]
           res == assertApplied(dbState, req.dir = "down", req.force)
           asked == IF req.force THEN log
                    ELSE Append(log, Ev("applied", d, u, Bool2Str(dbState)))
       IN  IF res = "none"
           THEN /\ log' = Append(asked, Ev("guard", d, u, "pass"))
                /\ pc' = "run_op"
                /\ UNCHANGED << err, surfaced >>
           ELSE /\ log' = Append(asked, Ev("guard", d, u, res))
                /\ Throw(res)
    /\ UNCHANGED << store, snap, store0, hist, lastApply, dirents, found,
                    runs, mode, req, folder, files, closing, exited >>

\* run that records the state before it invokes the operation
RunOpCallRecordsFirst ==
    /\ pc = "run_op"
    /\ log' = Append(log, Ev(IF req.dir = "up" THEN "record" ELSE "remove",
                             folder, req.u, "ok"))
    /\ store' = [store EXCEPT ![folder] = recordOrRemove(@, req.dir, req.u)]
    /\ pc' = "run_opwait"
    /\ UNCHANGED << snap, store0, hist, lastApply, dirents, found, runs, mode,
                    req, folder, files, err, surfaced, closing, exited >>

\* line 53: require(file)[dir](impl.handle, conf.value) is called
RunOpCall ==
    /\ pc = "run_op"
    /\ log' = Append(log, Ev("op_call", folder, req.u, req.dir))
    /\ pc' = "run_opwait"
    /\ UNCHANGED << store, snap, store0, hist, lastApply, dirents, found,
                    runs, mode, req, folder, files, err, surfaced, closing,
                    exited >>

\* line 53: the operation returned, or its promise fulfilled
RunOpOkStep ==
    /\ pc = "run_opwait"
    /\ log' = Append(log, Ev("op_ok", folder, req.u, req.dir))
    /\ pc' = "run_record"
    /\ UNCHANGED << store, snap, store0, lastApply, dirents, found, runs,
                    mode, req, folder, files, err, surfaced, closing, exited >>

RunOpOk == RunOpOkStep /\ UNCHANGED hist

\* the same step, counting the completed forward operation
RunOpOkCounted ==
    /\ RunOpOkStep
    /\ hist' = IF req.dir = "up"
               THEN [hist EXCEPT !.execs[folder][req.u] = @ + 1]
               ELSE hist

\* run that goes on to record the state after the operation failed
RunOpFailRecords ==
    /\ pc = "run_opwait"
    /\ log' = Append(log, Ev("op_fail", folder, req.u, req.dir))
    /\ pc' = "run_record"
    /\ UNCHANGED << store, snap, store0, hist, lastApply, dirents, found,
                    runs, mode, req, folder, files, err, surfaced, closing,
                    exited >>

\* line 53: the operation threw, or its promise rejected
RunOpFail ==
    /\ pc = "run_opwait"
    /\ log' = Append(log, Ev("op_fail", folder, req.u, req.dir))
    /\ Throw("exec")
    /\ UNCHANGED << store, snap, store0, hist, lastApply, dirents, found,
                    runs, mode, req, folder, files, closing, exited >>

\* line 54: return impl[dir === 'up' ? 'record' : 'remove'](name); then back
\* in the caller: applySingle goes on to commit, the loop to the next file
RunRecord ==
    /\ pc = "run_record"
    /\ log' = Append(log, Ev(IF req.dir = "up" THEN "record" ELSE "remove",
                             folder, req.u, "ok"))
    /\ store' = [store EXCEPT ![folder] = recordOrRemove(@, req.dir, req.u)]
    /\ IF mode = "single"
       THEN /\ pc' = "single_commit"
            /\ UNCHANGED files
       ELSE /\ pc' = "all_applied"
            /\ files' = Tail(files)
    /\ UNCHANGED << snap, store0, hist, lastApply, dirents, found, runs, mode,
                    req, folder, err, surfaced, closing, exited >>

----------------------------------------------------------------------------
\* applySingle (index.js 60-81)

\* line 62: const impl = await getImpl(folder, conf)
SingleGetImpl ==
    /\ pc = "single_getImpl"
    /\ Resolved(folder)
    /\ pc' = "run_guard"
    /\ UNCHANGED << store, store0, hist, lastApply, dirents, found, runs,
                    mode, req, folder, files, err, surfaced, closing,
                    exited >>

\* line 62 rejects (no plugin for the store type, or it fails to construct):
\* applySingle rejects with it
SingleGetImplFail ==
    /\ pc = "single_getImpl"
    /\ surfaced' = "load"
    /\ pc' = "done"
    /\ UNCHANGED << store, snap, store0, hist, lastApply, dirents, found,
                    runs, mode, req, folder, files, err, log, closing,
                    exited >>

\* applySingle that goes to close() without the commit
SingleCommitSkipped ==
    /\ pc = "single_commit"
    /\ pc' = "single_close"
    /\ UNCHANGED << store, snap, store0, hist, lastApply, dirents, found,
                    runs, mode, req, folder, files, err, surfaced, log,
                    closing, exited >>

\* line 76: await impl.commit()
SingleCommit ==
    /\ pc = "single_commit"
    /\ log' = Append(log, Ev("commit", folder, 0, "ok"))
    /\ pc' = "single_close"
    /\ UNCHANGED << store, snap, store0, hist, lastApply, dirents, found,
                    runs, mode, req, folder, files, err, surfaced, closing,
                    exited >>

\* line 77: await impl.close()
SingleClose ==
    /\ pc = "single_close"
    /\ log' = Append(log, Ev("close", folder, 0, "ok"))
    /\ pc' = "single_end"
    /\ UNCHANGED << store, snap, store0, hist, lastApply, dirents, found,
                    runs, mode, req, folder, files, err, surfaced, closing,
                    exited >>

\* lines 78-80: if (err) throw err; the caller (part_002 210-213, 250) gets it
SingleEnd ==
    /\ pc = "single_end"
    /\ surfaced' = err
    /\ pc' = "done"
    /\ UNCHANGED << store, snap, store0, hist, lastApply, dirents, found,
                    runs, mode, req, folder, files, err, log, closing,
                    exited >>

----------------------------------------------------------------------------
\* whole-directory up (part_002 216-240)

\* lines 218-222: getImpl resolves, then getMigrationsFromPath(folder)
AllGetImpl ==
    /\ pc = "all_getImpl"
    /\ Resolved(folder)
    /\ \E listing \in Listings : files' = getMigrationsFromPath(listing)
    /\ pc' = "all_applied"
    /\ UNCHANGED << store, store0, hist, lastApply, dirents, found, runs,
                    mode, req, folder, err, surfaced, closing, exited >>

\* the loop with getImpl's rejection reported and the folder passed over
AllGetImplFailGoesOn ==
    /\ pc = "all_getImpl"
    /\ surfaced' = "load"
    /\ IF folder < NumDirs
       THEN /\ folder' = folder + 1
            /\ pc' = "all_getImpl"
       ELSE /\ pc' = "done"
            /\ UNCHANGED folder
    /\ UNCHANGED << store, snap, store0, hist, lastApply, dirents, found,
                    runs, mode, req, files, err, log, closing, exited >>

\* line 219 rejects: the async function rejects, nothing catches it
AllGetImplFail ==
    /\ pc = "all_getImpl"
    /\ surfaced' = "load"
    /\ pc' = "done"
    /\ UNCHANGED << store, snap, store0, hist, lastApply, dirents, found,
                    runs, mode, req, folder, files, err, log, closing,
                    exited >>

\* the loop with the pre-filter given up under --force
\* (if (!isApplied || force)): an applied file is run again
AllAppliedUnlessForced ==
    /\ pc = "all_applied"
    /\ files # << >>
    /\ LET u == Head(files)
           isApplied == u \in store[folder]
       IN  /\ log' = Append(log, Ev("applied", folder, u, Bool2Str(isApplied)))
           /\ IF isApplied /\ ~req.force
              THEN /\ files' = Tail(files)
                   /\ pc' = "all_applied"
                   /\ UNCHANGED req
              ELSE /\ req' = [req EXCEPT !.d = folder, !.u = u]
                   /\ pc' = "run_guard"
                   /\ UNCHANGED files
    /\ UNCHANGED << store, snap, store0, hist, lastApply, dirents, found,
                    runs, mode, folder, err, surfaced, closing, exited >>

\* lines 222-226: the next file; isApplied = await impl.applied(name);
\* an applied file is passed over, any other is run
AllApplied ==
    /\ pc = "all_applied"
    /\ files # << >>
    /\ LET u == Head(files)
           isApplied == u \in store[folder]
       IN  /\ log' = Append(log, Ev("applied", folder, u, Bool2Str(isApplied)))
           /\ IF isApplied
              THEN /\ files' = Tail(files)
                   /\ pc' = "all_applied"
                   /\ UNCHANGED req
              ELSE /\ req' = [req EXCEPT !.d = folder, !.u = u]
                   /\ pc' = "run_guard"
                   /\ UNCHANGED files
    /\ UNCHANGED << store, snap, store0, hist, lastApply, dirents, found,
                    runs, mode, folder, err, surfaced, closing, exited >>

\* lines 236-237: no file is left; await runFiles; await impl.commit()
AllCommit ==
    /\ pc = "all_applied"
    /\ files = << >>
    /\ log' = Append(log, Ev("commit", folder, 0, "ok"))
    /\ pc' = "all_closecall"
    /\ UNCHANGED << store, snap, store0, hist, lastApply, dirents, found,
                    runs, mode, req, folder, files, err, surfaced, closing,
                    exited >>

\* line 238: impl.close() is called and not awaited; the loop goes on to the
\* next folder, or the function returns
AllCloseCall ==
    /\ pc = "all_closecall"
    /\ log' = Append(log, Ev("close", folder, 0, "ok"))
    /\ closing' = closing \cup {folder}
    /\ IF folder < NumDirs
       THEN /\ folder' = folder + 1
            /\ pc' = "all_getImpl"
       ELSE /\ pc' = "done"
            /\ UNCHANGED folder
    /\ UNCHANGED << store, snap, store0, hist, lastApply, dirents, found,
                    runs, mode, req, files, err, surfaced, exited >>

\* the close() of line 238 completes, whenever the adapter gets to it
CloseComplete ==
    /\ ~exited
    /\ \E d \in closing : closing' = closing \ {d}
    /\ UNCHANGED << store, snap, store0, hist, lastApply, dirents, found,
                    runs, mode, req, pc, folder, files, err, surfaced, log,
                    exited >>

\* line 230: await impl.rollback().  The adapter removes the changes of the
\* session "where practical" (README): it discards them, or it cannot.
AllRollbackStep(discards) ==
    /\ pc = "all_rollback"
    /\ store' = IF discards THEN [store EXCEPT ![folder] = snap[folder]]
                ELSE store
    /\ log' = Append(log, Ev("rollback", folder, 0,
                             IF discards THEN "discarded" ELSE "kept"))
    /\ pc' = "all_close"
    /\ UNCHANGED << snap, store0, lastApply, dirents, found, runs, mode, req,
                    folder, files, err, surfaced, closing, exited >>

AllRollback == \E discards \in BOOLEAN : AllRollbackStep(discards)
                                          /\ UNCHANGED hist

\* the same step, counting the completed operations the rollback discarded
AllRollbackCounted ==
    \E discards \in BOOLEAN :
        /\ AllRollbackStep(discards)
        /\ hist' = IF discards
                   THEN [hist EXCEPT !.undone[folder] =
                           AddOne(@, { u \in Units :
                                        \E i \in DOMAIN log :
                                           /\ log[i].ev = "op_ok"
                                           /\ log[i].d = folder
                                           /\ log[i].u = u })]
                   ELSE hist

\* line 231: await impl.close()
AllClose ==
    /\ pc = "all_close"
    /\ log' = Append(log, Ev("close", folder, 0, "ok"))
    /\ pc' = "all_exit"
    /\ UNCHANGED << store, snap, store0, hist, lastApply, dirents, found,
                    runs, mode, req, folder, files, err, surfaced, closing,
                    exited >>

\* the catch block without process.exit(1): the loop leaves this folder and
\* goes on with the next one
AllExitGoesOn ==
    /\ pc = "all_exit"
    /\ files' = << >>
    /\ IF folder < NumDirs
       THEN /\ folder' = folder + 1
            /\ pc' = "all_getImpl"
       ELSE /\ pc' = "done"
            /\ UNCHANGED folder
    /\ UNCHANGED << store, snap, store0, hist, lastApply, dirents, found,
                    runs, mode, req, err, surfaced, log, closing, exited >>

\* line 232: process.exit(1)
AllExit ==
    /\ pc = "all_exit"
    /\ exited' = TRUE
    /\ pc' = "done"
    /\ UNCHANGED << store, snap, store0, hist, lastApply, dirents, found,
                    runs, mode, req, folder, files, err, surfaced, log,
                    closing >>

----------------------------------------------------------------------------
Next ==
    \/ StartSingle
    \/ StartAll
    \/ SingleGetImpl
    \/ SingleGetImplFail
    \/ RunGuard
    \/ RunOpCall
    \/ RunOpOk
    \/ RunOpFail
    \/ RunRecord
    \/ SingleCommit
    \/ SingleClose
    \/ SingleEnd
    \/ AllGetImpl
    \/ AllGetImplFail
    \/ AllApplied
    \/ AllCommit
    \/ AllCloseCall
    \/ CloseComplete
    \/ AllRollback
    \/ AllClose
    \/ AllExit

Spec == Init /\ [][Next]_vars

\* Node runs every continuation whose promise has settled, and the adapter and
\* the units settle theirs: no step of the invocation waits for ever.
Step ==
    \/ SingleGetImpl \/ SingleGetImplFail \/ RunGuard \/ RunOpCall
    \/ RunOpOk \/ RunOpFail \/ RunRecord \/ SingleCommit \/ SingleClose
    \/ SingleEnd \/ AllGetImpl \/ AllGetImplFail \/ AllApplied \/ AllCommit
    \/ AllCloseCall \/ AllRollback \/ AllClose \/ AllExit

FairSpec == Spec /\ WF_vars(Step)

----------------------------------------------------------------------------
\* Reading the log of the current invocation

Unit == {"applied", "guard", "op_call", "op_ok", "op_fail", "record", "remove"}
Finalize == {"commit", "rollback", "close"}
AdapterCall == {"applied", "record", "remove", "commit", "rollback", "close"}

EvOf(d, kinds) == SelectSeq(log, LAMBDA e : e.d = d /\ e.ev \in kinds)
Names(s) == [i \in DOMAIN s |-> s[i].ev]
UnitsIn(s) == [i \in DOMAIN s |-> s[i].u]
Has(kinds) == \E i \in DOMAIN log : log[i].ev \in kinds
HasFor(d, u, kinds) ==
    \E i \in DOMAIN log : log[i].d = d /\ log[i].u = u /\ log[i].ev \in kinds
ResolvedIn(d) == HasFor(d, 0, {"getImpl"})

\* the first failure of a unit execution in this invocation: the guard's
\* message or "exec", and "none" when there is none
RunFailure ==
    IF \E i \in DOMAIN log : log[i].ev = "guard" /\ log[i].r # "pass"
    THEN LET i == CHOOSE i \in DOMAIN log :
                      log[i].ev = "guard" /\ log[i].r # "pass"
         IN  log[i].r
    ELSE IF Has({"op_fail"}) THEN "exec" ELSE "none"

----------------------------------------------------------------------------
\* C1: a single-unit apply without force of a unit recorded as applied fails
\* with the state-conflict error "already applied"; in that run no operation
\* of a unit is invoked, record() and remove() are not called, and the
\* recorded state of every unit stays what it was before the run.
C1_Case == mode = "single" /\ req.dir = "up" /\ ~req.force
           /\ req.u \in store0[req.d]

C1_AppliedUnitIsNotReapplied ==
    C1_Case =>
        /\ ~Has({"op_call", "op_ok", "op_fail", "record", "remove"})
        /\ store = store0
        /\ (pc = "done" /\ ResolvedIn(req.d) => surfaced = "already applied")
        /\ (surfaced # "none" => pc = "done")

C1_Witness ==
    /\ C1_Case
    /\ pc = "done"
    /\ surfaced = "already applied"
    /\ Names(EvOf(req.d, AdapterCall)) = << "applied", "commit", "close" >>

----------------------------------------------------------------------------
\* C2: whole-directory apply over a folder whose units are all unapplied, in
\* which the second unit's forward operation throws: the forward operations
\* of units 1 and 2 are invoked and no other, record() is called for unit 1
\* only, and the session ends with rollback() then close(), each once, and
\* no commit().
C2_Case(d) == /\ mode = "all"
              /\ store0[d] = {}
              /\ HasFor(d, 2, {"op_fail"})

C2_FailureContainment ==
    \A d \in Dirs : C2_Case(d) =>
        /\ UnitsIn(EvOf(d, {"op_call"})) = << 1, 2 >>
        /\ UnitsIn(EvOf(d, {"record"})) = << 1 >>
        /\ ~HasFor(d, 0, {"commit"})
        /\ Names(EvOf(d, Finalize)) \in
              { << >>, << "rollback" >>, << "rollback", "close" >> }
        /\ (pc = "done" => Names(EvOf(d, Finalize)) = << "rollback", "close" >>)

C2_Witness ==
    \E d \in Dirs : /\ C2_Case(d)
                    /\ pc = "done"
                    /\ Names(EvOf(d, Finalize)) = << "rollback", "close" >>
                    /\ ~HasFor(d, 3, {"op_call"})

----------------------------------------------------------------------------
\* C3: in single-unit mode, whether the unit execution succeeds or fails
\* (state conflict or operation error), commit() and then close() are each
\* called exactly once on the resolved adapter, in that order, and the
\* error of a failed execution is surfaced to the caller only after both.
C3_SingleFinalizeThenError ==
    mode = "single" =>
        /\ Names(EvOf(req.d, Finalize)) \in
              { << >>, << "commit" >>, << "commit", "close" >> }
        /\ (surfaced \notin {"none", "load"} =>
              Names(EvOf(req.d, Finalize)) = << "commit", "close" >>)
        /\ (pc = "done" /\ ResolvedIn(req.d) =>
              /\ Names(EvOf(req.d, Finalize)) = << "commit", "close" >>
              /\ surfaced = RunFailure)

C3_Witness ==
    /\ mode = "single"
    /\ pc = "done"
    /\ surfaced = "exec"
    /\ Names(EvOf(req.d, Finalize)) = << "commit", "close" >>

----------------------------------------------------------------------------
\* C4: within one folder's whole-directory run the units are taken in
\* strictly ascending name order, one at a time: what the run does for its
\* units (applied queries, guards, operations, records) is done unit after
\* unit in ascending order, and it turns to the next unit only when the
\* unit before it was found applied or its forward operation has completed
\* and its record() has been called.
C4_AscendingOneAtATime ==
    mode = "all" =>
        \A d \in Dirs :
            LET U == EvOf(d, Unit)
            IN  \A k \in 1 .. Len(U) - 1 :
                    /\ U[k].u <= U[k + 1].u
                    /\ (U[k].u < U[k + 1].u =>
                          \/ U[k] = Ev("applied", d, U[k].u, "true")
                          \/ /\ U[k] = Ev("record", d, U[k].u, "ok")
                             /\ k > 1
                             /\ U[k - 1] = Ev("op_ok", d, U[k].u, "up"))

C4_Witness ==
    /\ mode = "all"
    /\ pc = "done"
    /\ \E d \in Dirs : /\ Len(EvOf(d, {"op_call"})) >= 2
                       /\ Len(EvOf(d, {"record"})) >= 2

----------------------------------------------------------------------------
\* C5: in every execution of a unit the order is guard, operation, state
\* record: record() (remove()) is called only right after the unit's forward
\* (reverse) operation completed successfully, and the operation is invoked
\* only right after the guard passed, which without force means that the
\* adapter was asked and answered the state the direction requires.
C5_GuardThenOperationThenRecord ==
    \A i \in DOMAIN log :
        /\ (log[i].ev \in {"record", "remove"} =>
              /\ i > 1
              /\ log[i - 1] = Ev("op_ok", log[i].d, log[i].u,
                                 IF log[i].ev = "record" THEN "up" ELSE "down"))
        /\ (log[i].ev \in {"op_ok", "op_fail"} =>
              /\ i > 1
              /\ log[i - 1] = Ev("op_call", log[i].d, log[i].u, log[i].r))
        /\ (log[i].ev = "op_call" =>
              /\ i > 1
              /\ log[i - 1] = Ev("guard", log[i].d, log[i].u, "pass"))
        /\ (log[i].ev = "guard" /\ log[i].r = "pass" /\ ~req.force =>
              /\ i > 1
              /\ log[i - 1] = Ev("applied", log[i].d, log[i].u,
                                 Bool2Str(req.dir = "down")))

C5_Witness ==
    /\ Has({"record"})
    /\ Has({"applied"})
    /\ ~req.force
    /\ pc = "done"

----------------------------------------------------------------------------
\* C6: when a unit's forward or reverse operation fails, the error reaches
\* the caller of run, neither record() nor remove() is called for the unit
\* and its recorded state is unchanged.

\* The claim as it was stated: ... a failed apply leaves the unit not-applied
\* and a failed revert leaves it applied.
C6_FailedOperationLeavesTargetStateUnreached ==
    \A i \in DOMAIN log : log[i].ev = "op_fail" =>
        /\ ~HasFor(log[i].d, log[i].u, {"record", "remove"})
        /\ (log[i].u \in store[log[i].d]) = (log[i].u \in store0[log[i].d])
        /\ (log[i].r = "up" => log[i].u \notin store[log[i].d])
        /\ (log[i].r = "down" => log[i].u \in store[log[i].d])

\* C6, amended: ... its recorded state is unchanged; the failed apply leaves
\* the unit not-applied, and the failed revert leaves it applied, unless the
\* run was a forced single-unit run.
C6_FailedOperationRecordsNothing ==
    \A i \in DOMAIN log : log[i].ev = "op_fail" =>
        /\ (mode = "single" => err = "exec")
        /\ (mode = "single" /\ pc = "done" => surfaced = "exec")
        /\ (mode = "all" => surfaced = "exec")
        /\ ~HasFor(log[i].d, log[i].u, {"record", "remove"})
        /\ (log[i].u \in store[log[i].d]) = (log[i].u \in store0[log[i].d])
        /\ (mode = "all" \/ ~req.force =>
              /\ (log[i].r = "up" => log[i].u \notin store[log[i].d])
              /\ (log[i].r = "down" => log[i].u \in store[log[i].d]))

C6_Witness ==
    /\ pc = "done"
    /\ \E i \in DOMAIN log : log[i].ev = "op_fail" /\ log[i].r = "down"
    /\ ~req.force
    /\ surfaced = "exec"

----------------------------------------------------------------------------
\* C7: the session calls on every adapter resolved in a run follow the
\* protocol: nothing is called on it before it is resolved, it is resolved
\* once, one of commit() and rollback() is called, once, then close(), once,
\* and after close() nothing more is called on it and no unit operation is
\* given its handle; when the run has ended both calls have been made.
Finalized(d) ==
    Names(EvOf(d, Finalize)) \in
        { << "commit", "close" >>, << "rollback", "close" >> }

C7_SessionProtocol ==
    \A d \in Dirs :
        LET all == EvOf(d, Unit \cup Finalize \cup {"getImpl"})
        IN  /\ Names(EvOf(d, Finalize)) \in
                 { << >>, << "commit" >>, << "rollback" >>,
                   << "commit", "close" >>, << "rollback", "close" >> }
            /\ (all # << >> => all[1].ev = "getImpl")
            /\ Len(EvOf(d, {"getImpl"})) <= 1
            /\ \A i \in DOMAIN all : all[i].ev = "close" => i = Len(all)
            /\ (pc = "done" /\ ResolvedIn(d) => Finalized(d))

C7_Witness ==
    /\ pc = "done"
    /\ mode = "all"
    /\ \E d, e \in Dirs :
          /\ Names(EvOf(d, Finalize)) = << "commit", "close" >>
          /\ Names(EvOf(e, Finalize)) = << "rollback", "close" >>
          /\ Has({"record"})

----------------------------------------------------------------------------
\* C8: once an adapter has been resolved the run eventually finalizes it,
\* commit() or rollback() and then close(), also when a unit failed; and the
\* error reported to the caller is the failure of the unit.
C8_FinalizeAlwaysRuns ==
    /\ [](\A d \in Dirs : ResolvedIn(d) => <>Finalized(d))
    /\ [](pc = "done" /\ RunFailure # "none" => surfaced = RunFailure)

C8_Witness ==
    /\ pc = "done"
    /\ mode = "single"
    /\ RunFailure = "exec"
    /\ Finalized(req.d)
    /\ surfaced = "exec"

----------------------------------------------------------------------------
\* C9: in whole-directory mode over several folders, once a unit has failed
\* in a folder the invocation halts: no adapter is resolved for a later
\* folder, no unit operation and no adapter call is made there, and the
\* process exits.
C9_HaltOnFirstFailure ==
    mode = "all" =>
        \A i \in DOMAIN log : log[i].ev = "op_fail" =>
            /\ \A j \in DOMAIN log : log[j].d <= log[i].d
            /\ folder = log[i].d
            /\ (pc = "done" => exited)

C9_Witness ==
    /\ mode = "all"
    /\ pc = "done"
    /\ exited
    /\ \E i \in DOMAIN log : log[i].ev = "op_fail" /\ log[i].d < NumDirs

----------------------------------------------------------------------------
\* C10: the recorded state a failed whole-directory apply leaves behind.

\* The claim as it was stated: exactly the units that precede the failing
\* unit are recorded as applied.
C10_ExactlyThePrecedingUnitsApplied ==
    mode = "all" /\ pc = "done" =>
        \A i \in DOMAIN log : log[i].ev = "op_fail" =>
            store[log[i].d] = { u \in Units : u < log[i].u }

\* C10, amended: the failing unit is not recorded as applied and every later
\* unit keeps the recorded state it had before the run; every earlier unit
\* is recorded as applied when the adapter's rollback() discards nothing,
\* and when it discards the session's changes the folder's recorded state
\* is what it was before the run.
C10_StateLeftByFailedRun ==
    mode = "all" /\ pc = "done" =>
        \A i \in DOMAIN log : log[i].ev = "op_fail" =>
            LET d == log[i].d
                f == log[i].u
            IN  /\ f \notin store[d]
                /\ \A v \in Units :
                      v > f => ((v \in store[d]) = (v \in store0[d]))
                /\ (HasFor(d, 0, {"rollback"}) /\ EvOf(d, {"rollback"})[1].r = "kept"
                      => \A u \in Units : u < f => u \in store[d])
                /\ (HasFor(d, 0, {"rollback"}) /\ EvOf(d, {"rollback"})[1].r = "discarded"
                      => store[d] = store0[d])
                /\ HasFor(d, 0, {"rollback"})

C10_Witness ==
    /\ mode = "all"
    /\ pc = "done"
    /\ \E i \in DOMAIN log :
          /\ log[i].ev = "op_fail"
          /\ log[i].u = 2
          /\ HasFor(log[i].d, 1, {"record"})
          /\ EvOf(log[i].d, {"rollback"})[1].r = "kept"
          /\ store[log[i].d] = {1}

----------------------------------------------------------------------------
\* C11 as stated: whenever a unit's own operation raised an error, in
\* single-unit or in whole-directory mode, rollback() is called on the
\* adapter, and before close().
C11_RollbackOnEveryOperationFailure ==
    pc = "done" /\ Has({"op_fail"}) =>
        LET fin == Names(EvOf(folder, Finalize))
        IN  \E i \in DOMAIN fin : /\ fin[i] = "rollback"
                                  /\ \A j \in 1 .. i : fin[j] # "close"

\* C11: after a unit's operation raised an error the whole-directory loop
\* calls rollback() and then close() on the folder's adapter and never
\* commit(); applySingle calls commit() and then close() and never rollback().
C11_RollbackOnlyInWholeDirectoryMode ==
    Has({"op_fail"}) =>
        LET fin == Names(EvOf(folder, Finalize))
        IN  IF mode = "all"
            THEN /\ fin \in { << >>, << "rollback" >>,
                              << "rollback", "close" >> }
                 /\ (pc = "done" => fin = << "rollback", "close" >>)
            ELSE /\ fin \in { << >>, << "commit" >>, << "commit", "close" >> }
                 /\ (pc = "done" => fin = << "commit", "close" >>)

C11_Witness ==
    /\ mode = "all" /\ pc = "done" /\ exited
    /\ HasFor(folder, 2, {"op_fail"})
    /\ HasFor(folder, 0, {"rollback"})
    /\ log[Len(log)].ev = "close"

----------------------------------------------------------------------------
\* Session calls that reject.  Spec takes commit(), rollback() and close() to
\* fulfil; SpecFaults adds the runs in which an awaited one rejects.  What a
\* rejected commit() or rollback() leaves of the session's changes is the
\* adapter's affair: both outcomes are taken.

FinalizeFailed(call, discards) ==
    /\ log' = Append(log, Ev(call, folder, 0, "fail"))
    /\ store' = IF discards THEN [store EXCEPT ![folder] = snap[folder]]
                ELSE store
    /\ pc' = "done"
    /\ UNCHANGED << snap, store0, hist, lastApply, dirents, found, runs, mode,
                    req, folder, files, err, closing, exited >>

\* index.js 76: await impl.commit() rejects.  The rejection leaves applySingle
\* at once: close() is not called and line 78 (throw err) is not reached.
SingleCommitFail ==
    /\ pc = "single_commit"
    /\ \E discards \in BOOLEAN : FinalizeFailed("commit", discards)
    /\ surfaced' = "finalize"

\* index.js 77: await impl.close() rejects, line 78 is not reached
SingleCloseFail ==
    /\ pc = "single_close"
    /\ FinalizeFailed("close", FALSE)
    /\ surfaced' = "finalize"

\* part_002 237: await impl.commit() rejects; the async function of line 216
\* rejects, nothing handles it, and no further folder is visited
AllCommitFail ==
    /\ pc = "all_applied"
    /\ files = << >>
    /\ \E discards \in BOOLEAN : FinalizeFailed("commit", discards)
    /\ surfaced' = "finalize"

\* part_002 230: await impl.rollback() rejects inside the catch block, after
\* line 229 printed the unit's error; close() and process.exit(1) are skipped
AllRollbackFail ==
    /\ pc = "all_rollback"
    /\ \E discards \in BOOLEAN : FinalizeFailed("rollback", discards)
    /\ UNCHANGED surfaced

\* part_002 231: await impl.close() rejects; process.exit(1) is skipped
AllCloseFail ==
    /\ pc = "all_close"
    /\ FinalizeFailed("close", FALSE)
    /\ UNCHANGED surfaced

NextFaults ==
    \/ Next
    \/ SingleCommitFail
    \/ SingleCloseFail
    \/ AllCommitFail
    \/ AllRollbackFail
    \/ AllCloseFail

SpecFaults == Init /\ [][NextFaults]_vars

\* C12 as stated: when a unit execution failed and then commit(), rollback()
\* or close() failed as well, the error that reaches the top-level caller is
\* still the unit's, with its message.
C12_FinalizeFailureKeepsExecutionFailure ==
    /\ pc = "done"
    /\ RunFailure # "none"
    /\ \E i \in DOMAIN log : log[i].ev \in Finalize /\ log[i].r = "fail"
    => surfaced = RunFailure

----------------------------------------------------------------------------
\* C13: with force the guard does not query the adapter's applied state and
\* does not fail.  A forced single-unit run makes no applied() call at all;
\* whatever the unit's recorded state was, it invokes the operation of its
\* direction and, when that succeeds, calls record(name) (apply) or
\* remove(name) (revert), which leaves the unit applied or not applied.  (A
\* forced whole-directory run still makes its one pre-filter query per unit.)
C13_ForceSkipsGuard ==
    req.force /\ mode # "idle" =>
        /\ \A i \in DOMAIN log :
              /\ log[i].ev = "guard" => log[i].r = "pass"
              /\ log[i].ev = "applied" =>
                    /\ mode = "all"
                    /\ i > 1
                    /\ ~ /\ log[i - 1].ev = "applied"
                         /\ log[i - 1].d = log[i].d
                         /\ log[i - 1].u = log[i].u
        /\ mode = "single" /\ pc = "done" /\ ResolvedIn(req.d) =>
              LET calls == Names(EvOf(req.d, Unit))
                  last == IF req.dir = "up" THEN "record" ELSE "remove"
              IN  /\ calls \in { << "guard", "op_call", "op_ok", last >>,
                                 << "guard", "op_call", "op_fail" >> }
                  /\ Has({"op_ok"}) =>
                        (req.u \in store[req.d]) = (req.dir = "up")

C13_Witness ==
    /\ mode = "single" /\ req.force /\ req.dir = "up" /\ pc = "done"
    /\ req.u \in store0[req.d]
    /\ Names(EvOf(req.d, Unit)) = << "guard", "op_call", "op_ok", "record" >>
    /\ req.u \in store[req.d]

----------------------------------------------------------------------------
\* Single-unit runs without --force, each remembering the one before it.

StartSingleUnforced ==
    \E dir \in {"up", "down"}, d \in Dirs, u \in Units :
        BeginRemembering("single",
                         [dir |-> dir, d |-> d, u |-> u, force |-> FALSE],
                         "single_getImpl", d)

NextRoundTrip ==
    \/ StartSingleUnforced
    \/ SingleGetImpl
    \/ SingleGetImplFail
    \/ RunGuard
    \/ RunOpCall
    \/ RunOpOk
    \/ RunOpFail
    \/ RunRecord
    \/ SingleCommit
    \/ SingleClose
    \/ SingleEnd

SpecRoundTrip == Init /\ [][NextRoundTrip]_vars

\* the invocation is a single-unit revert without force that succeeded, of
\* the unit the invocation before it applied (without force, successfully)
\* from a state where the unit was recorded as not applied
C14_Case ==
    /\ mode = "single" /\ req.dir = "down" /\ ~req.force
    /\ pc = "done" /\ surfaced = "none"
    /\ lastApply.ok /\ lastApply.d = req.d /\ lastApply.u = req.u
    /\ req.u \notin lastApply.s[req.d]

\* C14: a successful unforced single-unit apply of a unit recorded as not
\* applied, followed by a successful unforced single-unit revert of the same
\* unit, leaves the recorded state of every folder as it was before the
\* apply; the unit is recorded as applied after the apply and as not applied
\* after the revert.
C14_ApplyThenRevertRestores ==
    C14_Case => /\ store = lastApply.s
                /\ req.u \in store0[req.d]
                /\ req.u \notin store[req.d]
                /\ store0 = [lastApply.s EXCEPT ![req.d] = @ \cup {req.u}]

C14_Witness ==
    /\ C14_Case
    /\ HasFor(req.d, req.u, {"remove"})
    /\ store = lastApply.s
    /\ runs = 2

----------------------------------------------------------------------------
\* C15: without force the guard asks the adapter for the unit's recorded
\* state and its outcome is a function of the direction and that state: an
\* apply passes iff the unit is recorded as not applied and otherwise fails
\* with "already applied"; a revert passes iff the unit is recorded as
\* applied and otherwise fails with "not yet applied".
C15_GuardOutcome ==
    ~req.force =>
        \A i \in DOMAIN log :
            log[i].ev = "guard" =>
                LET d == log[i].d
                    u == log[i].u
                    was == u \in store0[d]
                IN  /\ i > 1
                    /\ log[i - 1] = Ev("applied", d, u, Bool2Str(was))
                    /\ log[i].r =
                          IF req.dir = "up"
                          THEN (IF was THEN "already applied" ELSE "pass")
                          ELSE (IF was THEN "pass" ELSE "not yet applied")

C15_Witness ==
    /\ mode = "single" /\ req.dir = "down" /\ ~req.force /\ pc = "done"
    /\ req.u \notin store0[req.d]
    /\ HasFor(req.d, req.u, {"guard"})
    /\ surfaced = "not yet applied"

----------------------------------------------------------------------------
\* Apply runs without --force, single-unit and whole-directory, with the
\* completed forward operations counted over the invocations.

StartSingleApply ==
    \E d \in Dirs, u \in Units :
        Begin("single", [dir |-> "up", d |-> d, u |-> u, force |-> FALSE],
              "single_getImpl", d)

StartAllApply ==
    Begin("all", [dir |-> "up", d |-> 1, u |-> 1, force |-> FALSE],
          "all_getImpl", 1)

NextApply ==
    \/ StartSingleApply
    \/ StartAllApply
    \/ SingleGetImpl
    \/ SingleGetImplFail
    \/ RunGuard
    \/ RunOpCall
    \/ RunOpOkCounted
    \/ RunOpFail
    \/ RunRecord
    \/ SingleCommit
    \/ SingleClose
    \/ SingleEnd
    \/ AllGetImpl
    \/ AllGetImplFail
    \/ AllApplied
    \/ AllCommit
    \/ AllCloseCall
    \/ CloseComplete
    \/ AllRollbackCounted
    \/ AllClose
    \/ AllExit

SpecApply == Init /\ [][NextApply]_vars

\* C16 as stated: over single-unit and whole-directory apply runs without
\* force and with no revert, the forward operation of a unit is invoked and
\* completes at most once.
C16_ForwardOperationAtMostOnce ==
    \A d \in Dirs, u \in Units : hist.execs[d][u] <= 1

\* C16: over such runs the forward operation of a unit completes at most once
\* more than the number of times a whole-directory rollback() discarded a
\* session in which it had completed: a unit whose record was never rolled
\* back executes at most once.
C16_ForwardOperationOncePerKeptSession ==
    \A d \in Dirs, u \in Units :
        /\ hist.execs[d][u] <= hist.undone[d][u] + 1
        /\ u \in store[d] => hist.execs[d][u] = hist.undone[d][u] + 1

C16_Witness ==
    \E d \in Dirs, u \in Units :
        /\ hist.execs[d][u] = 2 /\ hist.undone[d][u] = 1
        /\ u \in store[d]
        /\ pc = "done"

----------------------------------------------------------------------------
\* C17 as stated: in whole-directory mode the folders are processed one at a
\* time in the order of paths; the processing of a folder, from the
\* resolution of its adapter to its close(), does not overlap the processing
\* of another folder, and a folder starts only after the one before it has
\* finished.  Here: all calls of a folder precede all calls of the folders
\* after it, and no call is made on a folder while the close() of an
\* earlier folder is still in progress.
C17_OneDirectoryAtATime ==
    mode = "all" =>
        /\ \A i \in DOMAIN log : i > 1 => log[i - 1].d <= log[i].d
        /\ \A d \in closing : \A i \in DOMAIN log : log[i].d <= d

----------------------------------------------------------------------------
\* C18: a whole-directory apply in which every forward operation succeeds
\* invokes, in a folder none of whose units was applied, the forward
\* operation of every discovered unit exactly once and in ascending order,
\* leaves every unit of the folder recorded as applied, calls commit() once
\* and then close() once on its adapter, and never calls rollback().
C18_WholeDirectorySuccess ==
    mode = "all" /\ pc = "done" /\ surfaced = "none" =>
        \A d \in Dirs :
            store0[d] = {} =>
                /\ UnitsIn(EvOf(d, {"op_call"})) = [i \in 1 .. NumUnits |-> i]
                /\ UnitsIn(EvOf(d, {"op_ok"})) = [i \in 1 .. NumUnits |-> i]
                /\ UnitsIn(EvOf(d, {"record"})) = [i \in 1 .. NumUnits |-> i]
                /\ store[d] = Units
                /\ Names(EvOf(d, Finalize)) = << "commit", "close" >>

C18_Witness ==
    /\ mode = "all" /\ pc = "done" /\ surfaced = "none" /\ closing = {}
    /\ \A d \in Dirs : store0[d] = {} /\ store[d] = Units
    /\ Len(EvOf(NumDirs, {"op_call"})) = NumUnits
    /\ ~Has({"rollback"})

----------------------------------------------------------------------------
\* C19: when the resolution of a folder's adapter fails, the failure reaches
\* the caller and the run ends there: no applied(), record(), remove(),
\* commit(), rollback() or close() and no operation of a unit is attempted
\* for that folder, and no later folder is visited.  (The log of a
\* single-unit run is then empty; a whole-directory run holds only the calls
\* made for the folders before.)
C19_LoadFailureAttemptsNothing ==
    surfaced = "load" =>
        /\ pc = "done"
        /\ ~exited
        /\ \A i \in DOMAIN log : log[i].d < folder
        /\ mode = "single" => log = << >>
        /\ store[folder] = store0[folder]

C19_Witness ==
    /\ surfaced = "load" /\ mode = "all" /\ folder = 2
    /\ Names(EvOf(1, Finalize)) = << "commit", "close" >>
    /\ HasFor(1, 1, {"op_ok"})

----------------------------------------------------------------------------
\* getMigrationsFromPath on file names.  The runs above take a folder's units
\* as 1 .. NumUnits, in the order of their names; here the names are the
\* character sequences readdirSync returns, the filter is the pattern of
\* index.js 86 and the order is that of Array.prototype.sort() without a
\* comparator: by UTF-16 code units.

MaxEntries == 3    \* entries of the folder in one listing

\* the characters of the names below, in ascending order of their code units
Ascii ==
    << "-", ".", "/", "0", "1", "2", "3", "5", "9", "A", "D", "E", "M", "R",
       "T", "a", "b", "d", "e", "g", "h", "i", "j", "l", "m", "n", "o", "p",
       "r", "s", "t", "x" >>

\* Names that a migrations folder may hold.  Migrations: names the pattern
\* accepts, listed here in ascending order of their code units.
\* 2019-12-31T23-59-59999-init.js
Migration1 ==
    << "2", "0", "1", "9", "-", "1", "2", "-", "3", "1", "T", "2", "3", "-",
       "5", "9", "-", "5", "9", "9", "9", "9", "-", "i", "n", "i", "t", ".",
       "j", "s" >>
\* 2020-01-01T00-00-1-a.js
Migration2 ==
    << "2", "0", "2", "0", "-", "0", "1", "-", "0", "1", "T", "0", "0", "-",
       "0", "0", "-", "1", "-", "a", ".", "j", "s" >>
\* 2020-01-01T00-00-1.js
Migration3 ==
    << "2", "0", "2", "0", "-", "0", "1", "-", "0", "1", "T", "0", "0", "-",
       "0", "0", "-", "1", ".", "j", "s" >>
\* 2020-01-01T00-00-10.js
Migration4 ==
    << "2", "0", "2", "0", "-", "0", "1", "-", "0", "1", "T", "0", "0", "-",
       "0", "0", "-", "1", "0", ".", "j", "s" >>
\* 2020-01-01T00-00-1a.test.js
Migration5 ==
    << "2", "0", "2", "0", "-", "0", "1", "-", "0", "1", "T", "0", "0", "-",
       "0", "0", "-", "1", "a", ".", "t", "e", "s", "t", ".", "j", "s" >>
\* README.md
ReadmeMd ==
    << "R", "E", "A", "D", "M", "E", ".", "m", "d" >>
\* template.js
TemplateJs ==
    << "t", "e", "m", "p", "l", "a", "t", "e", ".", "j", "s" >>
\* helper-lib.js
HelperLibJs ==
    << "h", "e", "l", "p", "e", "r", "-", "l", "i", "b", ".", "j", "s" >>
\* 2020-01-01T00-00-1.json
JsonFile ==
    << "2", "0", "2", "0", "-", "0", "1", "-", "0", "1", "T", "0", "0", "-",
       "0", "0", "-", "1", ".", "j", "s", "o", "n" >>
\* 2020-01-01T00-00-x.js
NoSeconds ==
    << "2", "0", "2", "0", "-", "0", "1", "-", "0", "1", "T", "0", "0", "-",
       "0", "0", "-", "x", ".", "j", "s" >>
\* 2020-1-01T00-00-1.js
ShortMonth ==
    << "2", "0", "2", "0", "-", "1", "-", "0", "1", "T", "0", "0", "-", "0",
       "0", "-", "1", ".", "j", "s" >>
\* x2020-01-01T00-00-1.js
Prefixed ==
    << "x", "2", "0", "2", "0", "-", "0", "1", "-", "0", "1", "T", "0", "0",
       "-", "0", "0", "-", "1", ".", "j", "s" >>

Migrations == { Migration1, Migration2, Migration3, Migration4, Migration5 }
Others == { ReadmeMd, TemplateJs, HelperLibJs, JsonFile, NoSeconds,
            ShortMonth, Prefixed }
FileNames == Migrations \cup Others

\* the folder given to getMigrationsFromPath
Folder == << "p", "g" >>

Code(c) == CHOOSE i \in DOMAIN Ascii : Ascii[i] = c

IsDigit(c) == c \in {"0", "1", "2", "3", "4", "5", "6", "7", "8", "9"}

\* /^\d{4}-\d{2}-\d{2}T\d{2}-\d{2}-\d+.*[.]js$/.test(file): the fixed part up
\* to the third "-" after the T, then digits up to some position k (\d+),
\* then anything (.*), then ".js" at the end of the name
matchesPattern(file) ==
    LET n == Len(file)
    IN  /\ n >= 21
        /\ \A i \in {1, 2, 3, 4, 6, 7, 9, 10, 12, 13, 15, 16} :
              IsDigit(file[i])
        /\ \A i \in {5, 8, 14, 17} : file[i] = "-"
        /\ file[11] = "T"
        /\ \E k \in 18 .. n - 3 :
              /\ \A i \in 18 .. k : IsDigit(file[i])
              /\ file[n - 2] = "." /\ file[n - 1] = "j" /\ file[n] = "s"

\* a < b or a = b as sort() compares two strings
RECURSIVE LexLeq(_, _)
LexLeq(a, b) ==
    IF a = << >> THEN TRUE
    ELSE IF b = << >> THEN FALSE
    ELSE IF Head(a) = Head(b) THEN LexLeq(Tail(a), Tail(b))
    ELSE Code(Head(a)) < Code(Head(b))

RECURSIVE InsertPath(_, _)
InsertPath(x, s) ==
    IF s = << >> THEN << x >>
    ELSE IF LexLeq(x, Head(s)) THEN << x >> \o s
    ELSE << Head(s) >> \o InsertPath(x, Tail(s))

RECURSIVE SortPaths(_)
SortPaths(s) ==
    IF s = << >> THEN << >> ELSE InsertPath(Head(s), SortPaths(Tail(s)))

\* `${ path }/${ file }`
PathOf(path, file) == path \o << "/" >> \o file

\* part_000's getMigrationsFromPath on names: filter and map, no sort
getMigrationsFromPathOfNamesUnsorted(path, listing) ==
    LET kept == SelectSeq(listing, matchesPattern)
    IN  [i \in DOMAIN kept |-> PathOf(path, kept[i])]

\* readdirSync(path).filter(...).map(...).sort()
getMigrationsFromPathOfNames(path, listing) ==
    LET kept == SelectSeq(listing, matchesPattern)
    IN  SortPaths([i \in DOMAIN kept |-> PathOf(path, kept[i])])

\* What readdirSync may return: up to MaxEntries distinct names in any order
NameListings ==
    UNION { { s \in [1 .. n -> FileNames] :
                \A i, j \in 1 .. n : i # j => s[i] # s[j] } :
            n \in 0 .. MaxEntries }

InitDiscovery ==
    /\ InitRun
    /\ dirents \in NameListings
    /\ found = << >>

\* one call getMigrationsFromPath(Folder) on a folder that lists dirents
Discover ==
    /\ pc = "idle"
    /\ found' = getMigrationsFromPathOfNames(Folder, dirents)
    /\ pc' = "listed"
    /\ UNCHANGED << store, snap, store0, hist, lastApply, dirents, runs, mode,
                    req, folder, files, err, surfaced, log, closing, exited >>

NextDiscovery == Discover

SpecDiscovery == InitDiscovery /\ [][NextDiscovery]_vars

\* the accepted names in ascending order, as paths of Folder
InOrder ==
    << PathOf(Folder, Migration1), PathOf(Folder, Migration2),
       PathOf(Folder, Migration3), PathOf(Folder, Migration4),
       PathOf(Folder, Migration5) >>

\* C20: for every listing of a folder, getMigrationsFromPath returns exactly
\* the entries whose names match the timestamp pattern with the .js
\* extension, each once, in ascending lexical order of their file names;
\* README.md, template.js, helper-lib.js and the other names the pattern
\* rejects are left out.
C20_DiscoveryFiltersAndSorts ==
    pc = "listed" =>
        found = SelectSeq(InOrder,
                          LAMBDA p : \E i \in DOMAIN dirents :
                                        p = PathOf(Folder, dirents[i]))

C20_Witness ==
    /\ pc = "listed"
    /\ dirents = << Migration3, ReadmeMd, Migration2 >>
    /\ found = << PathOf(Folder, Migration2), PathOf(Folder, Migration3) >>

----------------------------------------------------------------------------
----------------------------------------------------------------------------
\* C22: in whole-directory mode, the store being changed by this run only,
\* the guard of a unit never fails: a unit that passed the pre-filter is
\* still recorded as not applied when the guard asks again, so no run of that
\* mode ends with a state-conflict error, and rollback() is called only
\* after an operation failed.
C22_GuardPassesInWholeDirectoryMode ==
    mode = "all" =>
        /\ \A i \in DOMAIN log :
              log[i].ev = "guard" =>
                 /\ log[i].r = "pass"
                 /\ ~req.force => log[i - 1].ev = "applied"
                                  /\ log[i - 1].r = "false"
        /\ surfaced \in {"none", "exec", "load"}
        /\ Has({"rollback"}) => Has({"op_fail"})

C22_Witness ==
    /\ mode = "all" /\ ~req.force /\ pc = "done" /\ surfaced = "none"
    /\ store0[1] = {1}
    /\ Names(EvOf(1, Unit)) =
          << "applied",
             "applied", "applied", "guard", "op_call", "op_ok", "record",
             "applied", "applied", "guard", "op_call", "op_ok", "record" >>

----------------------------------------------------------------------------
\* C23: executing a unit changes the recorded state of that unit only.
\* record(n) is called only right after the forward operation of the unit
\* named n succeeded and remove(n) only right after its reverse operation
\* succeeded, and a folder's recorded set differs from the one the invocation
\* began with by exactly the names so recorded and removed (until a
\* rollback() discards the session, which returns the folder to that set).
C23_OnlyTheExecutedUnitChanges ==
    /\ \A i \in DOMAIN log :
          log[i].ev \in {"record", "remove"} =>
             /\ i > 1
             /\ log[i - 1] = Ev("op_ok", log[i].d, log[i].u,
                                IF log[i].ev = "record" THEN "up" ELSE "down")
    /\ \A d \in Dirs :
          LET evs == EvOf(d, {"record", "remove", "rollback"})
              Of(kind) == { evs[i].u : i \in { j \in DOMAIN evs :
                                                  evs[j].ev = kind } }
          IN  IF \E i \in DOMAIN evs : evs[i].r = "discarded"
              THEN store[d] = store0[d]
              ELSE store[d] = (store0[d] \cup Of("record")) \ Of("remove")

C23_Witness ==
    /\ mode = "single" /\ req.dir = "down" /\ pc = "done"
    /\ HasFor(req.d, req.u, {"remove"})
    /\ store0[req.d] = Units
    /\ store[req.d] = Units \ {req.u}
    /\ \A d \in Dirs \ {req.d} : store[d] = store0[d]

============================================================================
